---- MODULE Spec2Model ----
(***************************************************************************)
(* Dynamic-programming solvers of deeprl_p1/rl.py: evaluate_policy,        *)
(* value_function_to_policy, improve_policy, policy_iteration and          *)
(* value_iteration, over a finite MDP given as env.nS, env.nA and env.P.   *)
(*                                                                         *)
(* Python floats are modelled by exact rationals <<numerator,              *)
(* denominator>> in lowest terms with a positive denominator: the          *)
(* arithmetic is the real arithmetic the floats approximate, without       *)
(* rounding.                                                               *)
(***************************************************************************)
EXTENDS Integers, Sequences, FiniteSets, TLC

(* ------------------------------------------------------------------ *)
(* Rational arithmetic standing for the float operators of rl.py.      *)
(* ------------------------------------------------------------------ *)

AbsInt(n) == IF n < 0 THEN -n ELSE n

RECURSIVE GCD(_, _)
GCD(a, b) == IF b = 0 THEN a ELSE GCD(b, a % b)

Norm(n, d) == LET g == GCD(AbsInt(n), d) IN <<n \div g, d \div g>>

Zero == <<0, 1>>

R(n) == <<n, 1>>

RAdd(x, y) == Norm(x[1] * y[2] + y[1] * x[2], x[2] * y[2])

RSub(x, y) == Norm(x[1] * y[2] - y[1] * x[2], x[2] * y[2])

RMul(x, y) == Norm(x[1] * y[1], x[2] * y[2])

RAbs(x) == <<AbsInt(x[1]), x[2]>>

RLt(x, y) == x[1] * y[2] < y[1] * x[2]

\* Python's max(x, y): y only when it is strictly greater than x
RMax(x, y) == IF RLt(x, y) THEN y ELSE x

(* ------------------------------------------------------------------ *)
(* Inputs: the environments, discount factors and tolerances solved.   *)
(* ------------------------------------------------------------------ *)

\* largest max_iterations passed to value_iteration
MaxIter == 3

\* largest max_iterations passed to policy_iteration
MaxRounds == 5

\* largest max_iterations passed to evaluate_policy called on its own
MaxEvalIter == 1

StateCounts == {1, 2}

ActionCounts == {2}

Rewards == {1, 2}

Gammas == {<<1, 2>>}

Tols == {R(1)}

\* evaluate_policy is handed an array holding one of these at every state
StartValues == {0, 1}

\* rewards of the two equally likely outcomes of a stochastic action
SplitRewards == {<<-2, 1>>}

\* env.P[s][a] of a model with nS states whose terminal states are T: a list
\* of outcomes (prob, nextstate, reward, is_terminal), each flagged terminal
\* exactly when it enters a state of T; either one outcome of probability 1,
\* or two of probability 1/2, the first entering state 0 and the second the
\* last state
OutcomeLists(nS, T) ==
    { << [prob |-> R(1), nextstate |-> n, reward |-> R(r),
          is_terminal |-> (n \in T)] >> : n \in 0..(nS - 1), r \in Rewards }
    \cup
    { << [prob |-> <<1, 2>>, nextstate |-> 0, reward |-> R(rr[1]),
          is_terminal |-> (0 \in T)],
         [prob |-> <<1, 2>>, nextstate |-> nS - 1, reward |-> R(rr[2]),
          is_terminal |-> ((nS - 1) \in T)] >> : rr \in SplitRewards }

Envs ==
    UNION { UNION { UNION {
        { [nS |-> nS, nA |-> nA, P |-> P] :
            P \in [0..(nS - 1) -> [0..(nA - 1) -> OutcomeLists(nS, T)]] }
        : T \in SUBSET (0..(nS - 1)) }
        : nA \in ActionCounts }
        : nS \in StateCounts }

VARIABLES
    env,              \* the environment: nS, nA, P
    gamma,            \* discount factor
    tol,              \* convergence tolerance
    max_iterations,   \* the caller's iteration cap
    pc,               \* where the running call stands
    policy,           \* evaluate_policy / improve_policy: the policy argument
    v,                \* evaluate_policy: the value array (value_func, by reference)
    iterations,       \* evaluate_policy: sweeps started
    eval_converge,    \* evaluate_policy: loop flag
    V,                \* value_iteration: the value array
    iteration_cnt,    \* value_iteration: sweeps finished
    i,                \* value_iteration: loop index of range(max_iterations)
    s,                \* state index of the running sweep
    delta,            \* largest change of the running sweep
    swept,            \* history: the value array as the running sweep found it
    lastV,            \* history: value_iteration's array before the final override
    stopped,          \* history: why value_iteration left its loop
    value_func,       \* policy_iteration: the value array
    improve_iteration,\* policy_iteration: rounds counted
    evalue_iteration, \* policy_iteration: evaluation sweeps counted
    policy_stable,    \* policy_iteration: what improve_policy returned first
    rounds,           \* history: one record per finished policy_iteration round
    ret               \* what the last returned call returned

vars == <<env, gamma, tol, max_iterations, pc, policy, v, iterations,
          eval_converge, V, iteration_cnt, i, s, delta, swept, lastV, stopped,
          value_func, improve_iteration, evalue_iteration, policy_stable,
          rounds, ret>>

States == 0..(env.nS - 1)

Actions == 0..(env.nA - 1)

Zeros == [x \in States |-> Zero]

ZeroPolicy == [x \in States |-> 0]

NoRet == [call |-> "none"]

Policies == [States -> Actions]

Init ==
    /\ env \in Envs
    /\ gamma \in Gammas
    /\ tol \in Tols
    /\ max_iterations = 0
    /\ pc = "idle"
    /\ policy = [x \in 0..(env.nS - 1) |-> 0]
    /\ v = [x \in 0..(env.nS - 1) |-> Zero]
    /\ iterations = 0
    /\ eval_converge = FALSE
    /\ V = [x \in 0..(env.nS - 1) |-> Zero]
    /\ iteration_cnt = 0
    /\ i = 0
    /\ s = 0
    /\ delta = Zero
    /\ swept = [x \in 0..(env.nS - 1) |-> Zero]
    /\ lastV = [x \in 0..(env.nS - 1) |-> Zero]
    /\ stopped = "none"
    /\ value_func = [x \in 0..(env.nS - 1) |-> Zero]
    /\ improve_iteration = 0
    /\ evalue_iteration = 0
    /\ policy_stable = FALSE
    /\ rounds = << >>
    /\ ret = NoRet

(* ------------------------------------------------------------------ *)
(* evaluate_policy                                                     *)
(* ------------------------------------------------------------------ *)

\* for prob, nextstate, reward, is_terminal in env.P[s][a]: expected_value += ...
RECURSIVE EvalExpected(_, _, _, _, _)
EvalExpected(outs, k, acc, g, val) ==
    IF k > Len(outs) THEN acc
    ELSE LET o == outs[k]
             term == IF o.is_terminal = TRUE
                     THEN RMul(o.prob, RAdd(o.reward, RMul(g, Zero)))
                     ELSE RMul(o.prob, RAdd(o.reward, RMul(g, val[o.nextstate])))
         IN  EvalExpected(outs, k + 1, RAdd(acc, term), g, val)

\* the body of "for s in range(env.nS)" at state st: the array and delta after it
EvalState(e, g, pol, val, d, st) ==
    LET a == pol[st]
        expected_value == EvalExpected(e.P[st][a], 1, Zero, g, val)
        old_v == val[st]
        nv == [val EXCEPT ![st] = expected_value]
    IN  [v |-> nv, delta |-> RMax(d, RAbs(RSub(nv[st], old_v)))]

EvalConvergedLoose(d, t) == RLt(d, RMul(R(4), t))

\* if (delta < tol): eval_converge = True
EvalConverged(d, t) == RLt(d, t)

EvalCall(pol, v0, mi) ==
    /\ pc = "idle"
    /\ policy' = pol
    /\ max_iterations' = mi
    /\ v' = v0
    /\ eval_converge' = FALSE
    /\ iterations' = 1
    /\ delta' = Zero
    /\ s' = 0
    /\ swept' = v0
    /\ pc' = "eval_for"
    /\ UNCHANGED <<env, gamma, tol, V, iteration_cnt, i, lastV, stopped,
                   value_func, improve_iteration, evalue_iteration,
                   policy_stable, rounds, ret>>

EvalForBuffered ==
    /\ pc = "eval_for"
    /\ s < env.nS
    /\ LET r == EvalState(env, gamma, policy, swept, delta, s)
       IN  /\ v' = [v EXCEPT ![s] = r.v[s]]
           /\ delta' = r.delta
    /\ s' = s + 1
    /\ UNCHANGED <<env, gamma, tol, max_iterations, pc, policy, iterations,
                   eval_converge, V, iteration_cnt, i, swept, lastV, stopped,
                   value_func, improve_iteration, evalue_iteration,
                   policy_stable, rounds, ret>>

EvalFor ==
    /\ pc = "eval_for"
    /\ s < env.nS
    /\ LET r == EvalState(env, gamma, policy, v, delta, s)
       IN  /\ v' = r.v
           /\ delta' = r.delta
    /\ s' = s + 1
    /\ UNCHANGED <<env, gamma, tol, max_iterations, pc, policy, iterations,
                   eval_converge, V, iteration_cnt, i, swept, lastV, stopped,
                   value_func, improve_iteration, evalue_iteration,
                   policy_stable, rounds, ret>>

\* the end of a sweep: return when converged, else start the next sweep
EvalSweepEnd ==
    /\ pc = "eval_for"
    /\ s = env.nS
    /\ IF EvalConverged(delta, tol)
       THEN /\ eval_converge' = TRUE
            /\ pc' = "eval_ret"
            /\ ret' = [call |-> "evaluate_policy", v |-> v, iterations |-> iterations]
            /\ UNCHANGED <<iterations, delta, s, swept>>
       ELSE /\ iterations' = iterations + 1
            /\ delta' = Zero
            /\ s' = 0
            /\ swept' = v
            /\ UNCHANGED <<eval_converge, pc, ret>>
    /\ UNCHANGED <<env, gamma, tol, max_iterations, policy, v, V,
                   iteration_cnt, i, lastV, stopped, value_func,
                   improve_iteration, evalue_iteration, policy_stable, rounds>>

RECURSIVE EvalSweep(_, _, _, _, _, _)
EvalSweep(e, g, pol, val, d, st) ==
    IF st >= e.nS THEN [v |-> val, delta |-> d]
    ELSE LET r == EvalState(e, g, pol, val, d, st)
         IN  EvalSweep(e, g, pol, r.v, r.delta, st + 1)

RECURSIVE EvalLoop(_, _, _, _, _, _)
EvalLoop(e, g, pol, val, t, its) ==
    LET r == EvalSweep(e, g, pol, val, Zero, 0)
    IN  IF EvalConverged(r.delta, t)
        THEN [v |-> r.v, iterations |-> its + 1, delta |-> r.delta]
        ELSE EvalLoop(e, g, pol, r.v, t, its + 1)

\* the whole call, as policy_iteration makes it
evaluate_policy(e, g, pol, val, mi, t) == EvalLoop(e, g, pol, val, t, 0)

(* ------------------------------------------------------------------ *)
(* value_function_to_policy and improve_policy                         *)
(* ------------------------------------------------------------------ *)

\* for prob, nextstate, reward, is_terminal in env.P[s][a]: expected_value += ...
RECURSIVE ExtractExpected(_, _, _, _, _)
ExtractExpected(outs, k, acc, g, val) ==
    IF k > Len(outs) THEN acc
    ELSE LET o == outs[k]
             term == IF o.is_terminal
                     THEN RMul(o.prob, RAdd(o.reward, RMul(g, Zero)))
                     ELSE RMul(o.prob, RAdd(o.reward, RMul(g, val[o.nextstate])))
         IN  ExtractExpected(outs, k + 1, RAdd(acc, term), g, val)

ExtractWorse(max_value, expected_value) ==
    \/ max_value = <<>>
    \/ RLt(expected_value, max_value)

ExtractBetterOrEqual(max_value, expected_value) ==
    \/ max_value = <<>>
    \/ ~RLt(expected_value, max_value)

\* if max_value is None or max_value < expected_value  (None is <<>>)
ExtractBetter(max_value, expected_value) ==
    \/ max_value = <<>>
    \/ RLt(max_value, expected_value)

\* "for a in range(env.nA)" from action a on: the action recorded for state st
RECURSIVE ExtractBest(_, _, _, _, _, _, _)
ExtractBest(e, g, val, st, a, max_value, best) ==
    IF a >= e.nA THEN best
    ELSE LET expected_value == ExtractExpected(e.P[st][a], 1, Zero, g, val)
         IN  IF ExtractBetter(max_value, expected_value)
             THEN ExtractBest(e, g, val, st, a + 1, expected_value, a)
             ELSE ExtractBest(e, g, val, st, a + 1, max_value, best)

\* policy = np.zeros(nS); each state gets the action the inner loop records
value_function_to_policy(e, g, value_function) ==
    [st \in 0..(e.nS - 1) |-> ExtractBest(e, g, value_function, st, 0, <<>>, 0)]

\* the bool and the policy improve_policy returns
improve_policy(e, g, val, pol) ==
    LET old_policy == pol
        new_policy == value_function_to_policy(e, g, val)
        stable == \A st \in 0..(e.nS - 1) : old_policy[st] = new_policy[st]
    IN  <<stable, new_policy>>

\* the value function a caller holds once a solver has returned
Returned == IF pc = "eval_ret" THEN v ELSE V

ExtractCall ==
    /\ pc \in {"eval_ret", "vi_ret"}
    /\ ret' = [call |-> "value_function_to_policy", of |-> ret.call,
               value_function |-> Returned,
               policy |-> value_function_to_policy(env, gamma, Returned)]
    /\ pc' = "extract_ret"
    /\ UNCHANGED <<env, gamma, tol, max_iterations, policy, v, iterations,
                   eval_converge, V, iteration_cnt, i, s, delta, swept, lastV,
                   stopped, value_func, improve_iteration, evalue_iteration,
                   policy_stable, rounds>>

ImproveCall ==
    /\ pc = "eval_ret"
    /\ LET r == improve_policy(env, gamma, v, policy)
       IN  ret' = [call |-> "improve_policy", old_policy |-> policy,
                   value_func |-> v, flag |-> r[1], new_policy |-> r[2]]
    /\ pc' = "improve_ret"
    /\ UNCHANGED <<env, gamma, tol, max_iterations, policy, v, iterations,
                   eval_converge, V, iteration_cnt, i, s, delta, swept, lastV,
                   stopped, value_func, improve_iteration, evalue_iteration,
                   policy_stable, rounds>>

(* ------------------------------------------------------------------ *)
(* value_iteration                                                     *)
(* ------------------------------------------------------------------ *)

\* for prob, nextstate, reward, is_terminal in env.P[s][a]: expectation += ...
RECURSIVE VIExpectation(_, _, _, _, _)
VIExpectation(outs, k, acc, g, val) ==
    IF k > Len(outs) THEN acc
    ELSE LET o == outs[k]
             term == IF o.is_terminal
                     THEN RMul(o.prob, RAdd(o.reward, RMul(g, Zero)))
                     ELSE RMul(o.prob, RAdd(o.reward, RMul(g, val[o.nextstate])))
         IN  VIExpectation(outs, k + 1, RAdd(acc, term), g, val)

\* "for a in range(env.nA)" from action a on: max_value after the loop
RECURSIVE VIMaxValue(_, _, _, _, _, _)
VIMaxValue(e, g, val, st, a, max_value) ==
    IF a >= e.nA THEN max_value
    ELSE LET expectation == VIExpectation(e.P[st][a], 1, Zero, g, val)
         IN  VIMaxValue(e, g, val, st, a + 1,
                        IF max_value = <<>> THEN expectation
                        ELSE RMax(max_value, expectation))

\* the body of "for s in range(env.nS)" at state st: the array and delta after it
VIState(e, g, val, d, st) ==
    LET old == val[st]
        max_value == VIMaxValue(e, g, val, st, 0, <<>>)
        nv == [val EXCEPT ![st] = max_value]
    IN  [V |-> nv, delta |-> RMax(d, RAbs(RSub(old, nv[st])))]

VIConvergedLoose(d, t) == RLt(d, RMul(R(4), t))

\* if delta < tol: break
VIConverged(d, t) == RLt(d, t)

KeepLastState(e, val) == val

\* V[env.nS-1] = 0
ZeroLastState(e, val) == [val EXCEPT ![e.nS - 1] = Zero]

VICall(mi) ==
    /\ pc = "idle"
    /\ max_iterations' = mi
    /\ V' = Zeros
    /\ iteration_cnt' = 0
    /\ IF 0 < mi
       THEN /\ i' = 0
            /\ delta' = Zero
            /\ s' = 0
            /\ swept' = Zeros
            /\ pc' = "vi_for"
            /\ UNCHANGED stopped
       ELSE /\ pc' = "vi_end"
            /\ stopped' = "cap"
            /\ UNCHANGED <<i, delta, s, swept>>
    /\ UNCHANGED <<env, gamma, tol, policy, v, iterations, eval_converge,
                   lastV, value_func, improve_iteration, evalue_iteration,
                   policy_stable, rounds, ret>>

VIFor ==
    /\ pc = "vi_for"
    /\ s < env.nS
    /\ LET r == VIState(env, gamma, V, delta, s)
       IN  /\ V' = r.V
           /\ delta' = r.delta
    /\ s' = s + 1
    /\ UNCHANGED <<env, gamma, tol, max_iterations, pc, policy, v, iterations,
                   eval_converge, iteration_cnt, i, swept, lastV, stopped,
                   value_func, improve_iteration, evalue_iteration,
                   policy_stable, rounds, ret>>

\* the end of a sweep: count it, break when converged, else go on while
\* range(max_iterations) lasts
VISweepEnd ==
    /\ pc = "vi_for"
    /\ s = env.nS
    /\ iteration_cnt' = iteration_cnt + 1
    /\ IF VIConverged(delta, tol)
       THEN /\ pc' = "vi_end"
            /\ stopped' = "converged"
            /\ UNCHANGED <<i, delta, s, swept>>
       ELSE IF i + 1 < max_iterations
            THEN /\ i' = i + 1
                 /\ delta' = Zero
                 /\ s' = 0
                 /\ swept' = V
                 /\ UNCHANGED <<pc, stopped>>
            ELSE /\ pc' = "vi_end"
                 /\ stopped' = "cap"
                 /\ UNCHANGED <<i, delta, s, swept>>
    /\ UNCHANGED <<env, gamma, tol, max_iterations, policy, v, iterations,
                   eval_converge, V, lastV, value_func, improve_iteration,
                   evalue_iteration, policy_stable, rounds, ret>>

VIReturn ==
    /\ pc = "vi_end"
    /\ lastV' = V
    /\ V' = ZeroLastState(env, V)
    /\ ret' = [call |-> "value_iteration", V |-> V', iteration_cnt |-> iteration_cnt]
    /\ pc' = "vi_ret"
    /\ UNCHANGED <<env, gamma, tol, max_iterations, policy, v, iterations,
                   eval_converge, iteration_cnt, i, s, delta, swept, stopped,
                   value_func, improve_iteration, evalue_iteration,
                   policy_stable, rounds>>

Next ==
    \/ \E pol \in Policies, x \in StartValues, mi \in 0..MaxEvalIter :
          EvalCall(pol, [st \in States |-> R(x)], mi)
    \/ EvalFor
    \/ EvalSweepEnd
    \/ ExtractCall
    \/ ImproveCall
    \/ \E mi \in 0..MaxIter : VICall(mi)
    \/ VIFor
    \/ VISweepEnd
    \/ VIReturn

Spec == Init /\ [][Next]_vars

(* ------------------------------------------------------------------ *)
(* policy_iteration                                                    *)
(* ------------------------------------------------------------------ *)

LoopIsOverNoCap(stable, idx, mi) == stable

LoopIsOverIfChanged(stable, idx, mi) == ~stable \/ ~(idx + 1 < mi)

\* "if policy_stable: break", else the next i of range(max_iterations), if any
LoopIsOver(stable, idx, mi) == stable \/ ~(idx + 1 < mi)

PICall(mi) ==
    /\ pc = "idle"
    /\ max_iterations' = mi
    /\ policy' = ZeroPolicy
    /\ value_func' = Zeros
    /\ improve_iteration' = 0
    /\ evalue_iteration' = 0
    /\ policy_stable' = FALSE
    /\ rounds' = << >>
    /\ IF 0 < mi
       THEN /\ i' = 0
            /\ pc' = "pi_for"
            /\ UNCHANGED ret
       ELSE /\ pc' = "pi_ret"
            /\ ret' = [call |-> "policy_iteration", policy |-> policy',
                       value_func |-> value_func',
                       improve_iteration |-> 0, evalue_iteration |-> 0]
            /\ UNCHANGED i
    /\ UNCHANGED <<env, gamma, tol, v, iterations, eval_converge, V,
                   iteration_cnt, s, delta, swept, lastV, stopped>>

\* one pass of "for i in range(max_iterations)": evaluate, improve, count,
\* then break, go on or run out of range and return
PIRound ==
    /\ pc = "pi_for"
    /\ \E ev \in {evaluate_policy(env, gamma, policy, value_func, max_iterations, tol)} :
       \E im \in {improve_policy(env, gamma, ev.v, policy)} :
           /\ value_func' = ev.v
           /\ policy_stable' = im[1]
           /\ policy' = im[2]
           /\ improve_iteration' = improve_iteration + 1
           /\ evalue_iteration' = evalue_iteration + ev.iterations
           /\ rounds' = Append(rounds, [evaluated |-> policy, started |-> value_func,
                                        value_func |-> ev.v,
                                        e_iter |-> ev.iterations, delta |-> ev.delta,
                                        improved |-> im[2]])
           /\ IF LoopIsOver(im[1], i, max_iterations)
              THEN /\ pc' = "pi_ret"
                   /\ ret' = [call |-> "policy_iteration", policy |-> im[2],
                              value_func |-> ev.v,
                              improve_iteration |-> improve_iteration + 1,
                              evalue_iteration |-> evalue_iteration + ev.iterations]
                   /\ UNCHANGED i
              ELSE /\ i' = i + 1
                   /\ UNCHANGED <<pc, ret>>
    /\ UNCHANGED <<env, gamma, tol, max_iterations, v, iterations,
                   eval_converge, V, iteration_cnt, s, delta, swept, lastV,
                   stopped>>

NextPI ==
    \/ \E mi \in 0..MaxRounds : PICall(mi)
    \/ PIRound

SpecPI == Init /\ [][NextPI]_vars

(* ------------------------------------------------------------------ *)
(* The quantities the properties speak of, written from their          *)
(* definitions rather than from the loops above.                       *)
(* ------------------------------------------------------------------ *)

\* prob * (reward + gamma * V(next)), the continuation taken as 0 when terminal
OutcomeReturn(o, g, val) ==
    RMul(o.prob, RAdd(o.reward, IF o.is_terminal THEN Zero
                                ELSE RMul(g, val[o.nextstate])))

RECURSIVE SumReturns(_, _, _, _)
SumReturns(outs, n, g, val) ==
    IF n = 0 THEN Zero
    ELSE RAdd(SumReturns(outs, n - 1, g, val), OutcomeReturn(outs[n], g, val))

\* expected return of action a at state st under the value function val
Q(val, st, a) == SumReturns(env.P[st][a], Len(env.P[st][a]), gamma, val)

RLe(x, y) == ~RLt(y, x)

\* the largest expected return at st
MaxQ(val, st) ==
    LET qs == {Q(val, st, a) : a \in Actions}
    IN  CHOOSE m \in qs : \A q \in qs : RLe(q, m)

NonTerminalOnly(st, a) ==
    \A k \in 1..Len(env.P[st][a]) : ~env.P[st][a][k].is_terminal

\* no action at st has a non-terminal outcome entering state n
NeverReads(st, n) ==
    \A a \in Actions : \A k \in 1..Len(env.P[st][a]) :
        env.P[st][a][k].is_terminal \/ env.P[st][a][k].nextstate # n

\* what state st sees in a sweep run in place: this sweep's values below st,
\* the previous sweep's from st on
Mixed(cur, old, st) == [j \in States |-> IF j < st THEN cur[j] ELSE old[j]]

\* the largest |cur - old| over the states below n
MaxChange(cur, old, n) ==
    LET ds == {RAbs(RSub(cur[j], old[j])) : j \in 0..(n - 1)} \cup {Zero}
    IN  CHOOSE m \in ds : \A d \in ds : RLe(d, m)

RECURSIVE SumEIter(_, _)
SumEIter(rs, n) == IF n = 0 THEN 0 ELSE SumEIter(rs, n - 1) + rs[n].e_iter

\* the single-state model with two terminal actions of reward 1 and 2
ScenarioB ==
    /\ env.nS = 1
    /\ env.nA = 2
    /\ env.P[0][0] = << [prob |-> R(1), nextstate |-> 0, reward |-> R(1),
                         is_terminal |-> TRUE] >>
    /\ env.P[0][1] = << [prob |-> R(1), nextstate |-> 0, reward |-> R(2),
                         is_terminal |-> TRUE] >>

(* ------------------------------------------------------------------ *)
(* Properties                                                          *)
(* ------------------------------------------------------------------ *)

\* C1: evaluate_policy returns an iteration count that is at most
\* max_iterations (the cap stops the sweeps when convergence does not).
C1_EvalCountWithinCap ==
    pc = "eval_ret" => ret.iterations <= max_iterations

\* C2: the boolean improve_policy returns first is true exactly when the
\* new greedy policy differs from the old policy at one or more states.
C2_FlagMeansChanged ==
    pc = "improve_ret" =>
        (ret.flag <=> \E st \in States : ret.new_policy[st] # ret.old_policy[st])

\* C3: policy_iteration starts from the all-zero policy and value function,
\* runs rounds of evaluate-then-improve, each on the policy and values the
\* round before left, and returns right after the first round whose improved
\* policy equals the evaluated one, or after max_iterations rounds; on return
\* the improvement count is the number of rounds (<= max_iterations) and the
\* evaluation count is the sum of the rounds' sweep counts.
C3_RoundsAndCounts ==
    LET n == Len(rounds)
        unstable(k) == rounds[k].improved # rounds[k].evaluated
    IN  /\ pc \in {"pi_for", "pi_ret"} =>
            /\ n > 0 => /\ rounds[1].evaluated = ZeroPolicy
                        /\ rounds[1].started = Zeros
            /\ \A k \in 1..(n - 1) :
                   /\ unstable(k)
                   /\ rounds[k + 1].evaluated = rounds[k].improved
                   /\ rounds[k + 1].started = rounds[k].value_func
        /\ pc = "pi_for" => /\ n < max_iterations
                            /\ \A k \in 1..n : unstable(k)
        /\ pc = "pi_ret" =>
            /\ n <= max_iterations
            /\ n < max_iterations => n > 0 /\ ~unstable(n)
            /\ ret.improve_iteration = n
            /\ ret.evalue_iteration = SumEIter(rounds, n)
            /\ n > 0 => /\ ret.policy = rounds[n].improved
                        /\ ret.value_func = rounds[n].value_func

\* C3 witness: a run that returned after three rounds, the third one stable,
\* with the cap not reached
C3_Witness ==
    /\ pc = "pi_ret"
    /\ Len(rounds) = 3
    /\ max_iterations > 3
    /\ rounds[3].improved = rounds[3].evaluated
    /\ ret.evalue_iteration > 3

\* C4: value_function_to_policy gives every state the smallest action index
\* among the actions of maximal expected return.
C4_LowestMaximalAction ==
    pc = "extract_ret" =>
        \A st \in States :
            LET a == ret.policy[st]
            IN  \A b \in Actions :
                    /\ RLe(Q(ret.value_function, st, b), Q(ret.value_function, st, a))
                    /\ b < a => RLt(Q(ret.value_function, st, b),
                                    Q(ret.value_function, st, a))

\* C4 witness: two actions tie at a state whose value function matters, and
\* at another state the higher action is strictly better
C4_Witness ==
    /\ pc = "extract_ret"
    /\ env.nS = 2
    /\ Q(ret.value_function, 0, 0) = Q(ret.value_function, 0, 1)
    /\ ~NonTerminalOnly(0, 0) /\ NonTerminalOnly(0, 1)
    /\ ret.policy[0] = 0
    /\ ret.policy[1] = 1

\* C5: value_iteration returns 0 at the last state index whatever the sweeps
\* computed and however the loop stopped; on the single-state model with
\* terminal rewards 1 and 2 the sweeps compute V[0] = 2, the returned V[0] is
\* 0, and the policy extracted from the returned values picks action 1.
C5_LastStateZeroed ==
    /\ pc = "vi_ret" =>
        /\ ret.V[env.nS - 1] = Zero
        /\ \A st \in States : st # env.nS - 1 => ret.V[st] = lastV[st]
        /\ (ScenarioB /\ max_iterations > 0) =>
               lastV[0] = R(2) /\ ret.V[0] = Zero
    /\ (pc = "extract_ret" /\ ret.of = "value_iteration" /\ ScenarioB) =>
        ret.policy[0] = 1

\* C5 witness: the single-state scenario, converged at 2, returned as 0 and
\* extracted as action 1
C5_Witness ==
    /\ pc = "extract_ret"
    /\ ret.of = "value_iteration"
    /\ ScenarioB
    /\ stopped = "converged"
    /\ lastV[0] = R(2)
    /\ V[0] = Zero
    /\ ret.policy[0] = 1

\* the claim's sum over the outcomes of policy[st]: prob * (reward + gamma * V(next))
RECURSIVE PolicyBackup(_, _, _)
PolicyBackup(outs, n, val) ==
    IF n = 0 THEN Zero
    ELSE RAdd(PolicyBackup(outs, n - 1, val),
              RMul(outs[n].prob,
                   RAdd(outs[n].reward, RMul(gamma, val[outs[n].nextstate]))))

Residual(val, st, a) ==
    RAbs(RSub(val[st], PolicyBackup(env.P[st][a], Len(env.P[st][a]), val)))

\* C6: when evaluate_policy returns because a sweep ended with delta < tol,
\* the returned V is within tol of its own one-step backup under policy[s],
\* at every state s whose outcomes under policy[s] are all non-terminal.
C6_EvaluationFixedPoint ==
    (pc = "eval_ret" /\ eval_converge) =>
        \A st \in States :
            NonTerminalOnly(st, policy[st]) =>
                RLt(Residual(ret.v, st, policy[st]), tol)

\* C6 witness: a converged evaluation of several sweeps that is not exact:
\* a state with non-terminal outcomes whose residual is not zero
C6_Witness ==
    /\ pc = "eval_ret"
    /\ eval_converge
    /\ ret.iterations >= 3
    /\ \E st \in States :
           /\ NonTerminalOnly(st, policy[st])
           /\ Residual(ret.v, st, policy[st]) # Zero

\* C7 as stated: every value function value_iteration returns satisfies the
\* Bellman optimality equation within tol at every state but the last index,
\* evaluated on the returned (last index zeroed) array.
C7_ReturnedValuesOptimal ==
    pc = "vi_ret" =>
        \A st \in States :
            st # env.nS - 1 =>
                RLt(RAbs(RSub(ret.V[st], MaxQ(ret.V, st))), tol)

\* C7 as stated, for the runs that stopped on delta < tol only
C7_ConvergedValuesOptimal ==
    (pc = "vi_ret" /\ stopped = "converged") =>
        \A st \in States :
            st # env.nS - 1 =>
                RLt(RAbs(RSub(ret.V[st], MaxQ(ret.V, st))), tol)

\* C7 amended: when value_iteration stopped because a sweep ended with
\* delta < tol, the returned array satisfies the Bellman optimality equation
\* within tol at every state but the last index that has no non-terminal
\* outcome, under any action, entering the last index.
C7_OptimalWhereLastStateUnread ==
    (pc = "vi_ret" /\ stopped = "converged") =>
        \A st \in States :
            (st # env.nS - 1 /\ NeverReads(st, env.nS - 1)) =>
                RLt(RAbs(RSub(ret.V[st], MaxQ(ret.V, st))), tol)

\* C7 witness: a converged run of two states whose last state was zeroed from
\* a non-zero value, state 0 not reading it and holding a non-zero value
C7_Witness ==
    /\ pc = "vi_ret"
    /\ stopped = "converged"
    /\ env.nS = 2
    /\ NeverReads(0, 1)
    /\ lastV[1] # Zero
    /\ ret.V[0] # Zero
    /\ ret.iteration_cnt >= 3

\* C8 as stated: a run of policy_iteration that its cap did not stop ends
\* with at most stateCount^actionCount improvement rounds.
C8_RoundsWithinStatePower ==
    (pc = "pi_ret" /\ policy_stable) =>
        ret.improve_iteration <= env.nS ^ env.nA

\* the finite-policy-space bound actionCount^stateCount, for the runs the cap
\* stopped as well
C8_RoundsWithinPolicyCount ==
    pc = "pi_ret" => ret.improve_iteration <= env.nA ^ env.nS

\* C8 amended: policy_iteration ends with at most max_iterations improvement
\* rounds.
C8_RoundsWithinCap ==
    pc = "pi_ret" => ret.improve_iteration <= max_iterations

\* C8 witness: a run that stabilised below its cap after more rounds than
\* stateCount^actionCount
C8_Witness ==
    /\ pc = "pi_ret"
    /\ policy_stable
    /\ ret.improve_iteration > env.nS ^ env.nA
    /\ ret.improve_iteration < max_iterations

\* C9 as stated: from one round of policy_iteration to the next, no state's
\* evaluated value decreases.
C9_ValuesNeverDecrease ==
    \A k \in 2..Len(rounds) : \A st \in States :
        RLe(rounds[k - 1].value_func[st], rounds[k].value_func[st])

\* C9 amended: no state's evaluated value decreases from round k-1 to round k
\* when the evaluation of round k-1 ended on a sweep that changed nothing
\* (delta = 0).
C9_NoDecreaseAfterExactRound ==
    \A k \in 2..Len(rounds) :
        rounds[k - 1].delta = Zero =>
            \A st \in States :
                RLe(rounds[k - 1].value_func[st], rounds[k].value_func[st])

\* C9 witness: two rounds, the first evaluated exactly, the second with a
\* different policy, inexact, and strictly better at some state
C9_Witness ==
    /\ Len(rounds) >= 2
    /\ rounds[1].delta = Zero
    /\ rounds[2].delta # Zero
    /\ rounds[2].evaluated # rounds[1].evaluated
    /\ \E st \in States :
           RLt(rounds[1].value_func[st], rounds[2].value_func[st])

\* C10: a sweep of evaluate_policy or value_iteration updates the states in
\* increasing index order on the one array: the new value of state s comes
\* from this sweep's values below s and the previous sweep's from s on, and
\* delta is the largest |new - old| over the states the sweep has updated.
C10_SweepsInPlace ==
    [][
        /\ (pc = "eval_for" /\ s < env.nS) =>
               /\ pc' = "eval_for"
               /\ s' = s + 1
               /\ v' = [v EXCEPT ![s] = Q(Mixed(v, swept, s), s, policy[s])]
               /\ delta' = MaxChange(v', swept, s + 1)
        /\ (pc = "vi_for" /\ s < env.nS) =>
               /\ pc' = "vi_for"
               /\ s' = s + 1
               /\ V' = [V EXCEPT ![s] = MaxQ(Mixed(V, swept, s), s)]
               /\ delta' = MaxChange(V', swept, s + 1)
        /\ (pc' \in {"eval_for", "vi_for"} /\ s' = 0) =>
               /\ delta' = Zero
               /\ swept' = IF pc' = "eval_for" THEN v' ELSE V'
    ]_vars

\* C10 witness: a finished sweep of evaluate_policy in which state 1 was
\* computed from the value state 0 had just been given, not from the one the
\* sweep found
C10_Witness ==
    /\ pc = "eval_for"
    /\ env.nS = 2
    /\ s = 2
    /\ iterations >= 2
    /\ v[0] # swept[0]
    /\ NonTerminalOnly(1, policy[1])
    /\ v[1] = Q(v, 1, policy[1])
    /\ v[1] # Q(swept, 1, policy[1])

====
